---------------------------- MODULE Spec2Model ----------------------------
(***************************************************************************)
(* OskarBit: the per-stream calibration / motion-classification pipeline   *)
(* of sketch.js (the motion monitor), and the ingestion scheduler with     *)
(* backlog control of sketchGraphs.js (src/unnamed/part_001).              *)
(*                                                                         *)
(* Numbers.  JavaScript numbers are modelled by records                    *)
(*   [k |-> "fin", v |-> n]   a finite value n (an integer count of units) *)
(*   [k |-> "inf", v |-> s]   +Infinity (s = 1) or -Infinity (s = -1)      *)
(*   [k |-> "nan", v |-> 0]   NaN                                          *)
(* with the IEEE rules for NaN and the infinities.  Units per field:       *)
(*   rawX/Y/Z, baseX/Y/Z, calibrationNoise   mg                            *)
(*   x, y, z (display values)                1/100 mg                      *)
(*   deadzone, motionThresholds              1/10 mg                       *)
(*   distanceSq                              mg^2: the square of the       *)
(*                                           code's distance (the root is  *)
(*                                           irrational in general)        *)
(* Comparisons of a distance with a threshold are made exactly, on the     *)
(* squares.  Divisions and square roots round down; on the samples the     *)
(* specifications below feed, every baseline and every noise is an         *)
(* integer number of mg, so the only rounding left is that of the display  *)
(* smoothing (0.01 mg where the code has a double's precision).            *)
(*                                                                         *)
(* Text.  A line is a sequence of one-character strings.                   *)
(***************************************************************************)
EXTENDS Integers, Sequences, FiniteSets, TLC

---------------------------------------------------------------------------
(* Program constants *)

MAX_STREAMS == 6

\* update: `if (this.calibrationData.length >= 60)`
N == 60

\* isActive: `Date.now() - this.lastUpdate < 5000`
ACTIVE_TIMEOUT == 5000

\* update: `Date.now() - this.lastMotionTime > 2000`
STUCK_TIMEOUT == 2000

\* updateStats: `t - lastLogTime >= 1000`
STATS_PERIOD == 1000

\* sketch.js draw: `for (let i = 0; i < 50; i++)`
SKETCH_READS_PER_FRAME == 50

\* part_001: `const MAX_MESSAGES_PER_FRAME = 20`
MAX_MESSAGES_PER_FRAME == 20

\* part_001: `const AUTO_CLEAR_THRESHOLD = 60`
AUTO_CLEAR_THRESHOLD == 60

\* part_001, clearSerialBuffer: `const MAX_CLEAR = 1000`
MAX_CLEAR == 1000

\* part_001, addCalibrationSample: `if (this.calibrationFrames >= 30)`
GRAPH_SAMPLES == 30

---------------------------------------------------------------------------
(* JavaScript numbers *)

Fin(n) == [k |-> "fin", v |-> n]

NaN == [k |-> "nan", v |-> 0]

Inf(s) == [k |-> "inf", v |-> s]

isNaN(a) == a.k = "nan"

SignOf(a) == IF a.v > 0 THEN 1 ELSE IF a.v < 0 THEN -1 ELSE 0

Neg(a) == IF a.k = "nan" THEN NaN ELSE [k |-> a.k, v |-> -a.v]

Add(a, b) ==
    IF a.k = "nan" \/ b.k = "nan" THEN NaN
    ELSE IF a.k = "inf" /\ b.k = "inf" THEN (IF a.v = b.v THEN a ELSE NaN)
    ELSE IF a.k = "inf" THEN a
    ELSE IF b.k = "inf" THEN b
    ELSE Fin(a.v + b.v)

Sub(a, b) == Add(a, Neg(b))

Mul(a, b) ==
    IF a.k = "nan" \/ b.k = "nan" THEN NaN
    ELSE IF a.k = "inf" \/ b.k = "inf"
         THEN (IF SignOf(a) = 0 \/ SignOf(b) = 0 THEN NaN
               ELSE Inf(SignOf(a) * SignOf(b)))
    ELSE Fin(a.v * b.v)

\* a * (p / q) for a positive rational p / q, rounded down
Scale(a, p, q) == IF a.k = "fin" THEN Fin((a.v * p) \div q) ELSE a

\* a < b; false when either is NaN
Lt(a, b) ==
    /\ a.k # "nan"
    /\ b.k # "nan"
    /\ IF a.k = "inf" THEN a.v < 0 /\ ~(b.k = "inf" /\ b.v < 0)
       ELSE IF b.k = "inf" THEN b.v > 0
       ELSE a.v < b.v

Gt(a, b) == Lt(b, a)

\* Math.max(a, b)
MathMax(a, b) ==
    IF a.k = "nan" \/ b.k = "nan" THEN NaN
    ELSE IF Lt(a, b) THEN b ELSE a

\* Math.min(a, b)
MathMin(a, b) ==
    IF a.k = "nan" \/ b.k = "nan" THEN NaN
    ELSE IF Lt(b, a) THEN b ELSE a

\* The smaller of two integers
Min(a, b) == IF a < b THEN a ELSE b

\* The largest r in lo..hi with r * r <= n (hi <= 46340, so r * r fits)
RECURSIVE SqrtSearch(_, _, _)
SqrtSearch(n, lo, hi) ==
    IF lo >= hi THEN lo
    ELSE LET mid == (lo + hi + 1) \div 2
         IN  IF mid * mid <= n THEN SqrtSearch(n, mid, hi)
             ELSE SqrtSearch(n, lo, mid - 1)

ISqrt(n) == SqrtSearch(n, 0, IF n < 46340 THEN n ELSE 46340)

\* Math.sqrt(a)
MathSqrt(a) ==
    IF a.k = "nan" THEN NaN
    ELSE IF a.k = "inf" THEN (IF a.v > 0 THEN a ELSE NaN)
    ELSE IF a.v < 0 THEN NaN
    ELSE Fin(ISqrt(a.v))

\* sqrt(d2) >= t / 10 for finite d2 (mg^2) and t (1/10 mg), exactly:
\* with t = 10 n + f, 100 d2 >= t^2 iff d2 - n^2 >= ceil((20 n f + f^2) / 100)
FinRootGe(d2, t) ==
    IF t <= 0 THEN TRUE
    ELSE LET n == t \div 10
             f == t % 10
         IN  IF n > 46340 THEN FALSE
             ELSE d2 - n * n >= (20 * n * f + f * f + 99) \div 100

\* sqrt(d2) > t / 10, exactly
FinRootGt(d2, t) ==
    IF t < 0 THEN TRUE
    ELSE LET n == t \div 10
             f == t % 10
         IN  IF n > 46340 THEN FALSE
             ELSE d2 - n * n > (20 * n * f + f * f) \div 100

\* distance >= threshold, where d2 is the distance squared
RootGe(d2, t) ==
    /\ d2.k # "nan"
    /\ t.k # "nan"
    /\ IF t.k = "inf" THEN t.v < 0 \/ d2.k = "inf"
       ELSE IF d2.k = "inf" THEN TRUE
       ELSE FinRootGe(d2.v, t.v)

\* distance > threshold
RootGt(d2, t) ==
    /\ d2.k # "nan"
    /\ t.k # "nan"
    /\ IF t.k = "inf" THEN t.v < 0
       ELSE IF d2.k = "inf" THEN TRUE
       ELSE FinRootGt(d2.v, t.v)

\* distance < threshold
RootLt(d2, t) ==
    /\ d2.k # "nan"
    /\ t.k # "nan"
    /\ IF t.k = "inf" THEN t.v > 0 /\ d2.k # "inf"
       ELSE IF d2.k = "inf" THEN FALSE
       ELSE ~FinRootGe(d2.v, t.v)

---------------------------------------------------------------------------
(* Text: lines, the regular expressions of parseMessage, parseFloat *)

DigitChars == <<"0", "1", "2", "3", "4", "5", "6", "7", "8", "9">>

IsDigit(c) == \E i \in 1..10 : DigitChars[i] = c

DigitVal(c) == (CHOOSE i \in 1..10 : DigitChars[i] = c) - 1

\* \s of a regular expression, and what String.prototype.trim removes
IsSpace(c) == c \in {" ", "\t", "\n", "\r"}

RECURSIVE TrimLeft(_)
TrimLeft(s) ==
    IF s # <<>> /\ IsSpace(Head(s)) THEN TrimLeft(Tail(s)) ELSE s

RECURSIVE TrimRight(_)
TrimRight(s) ==
    IF s # <<>> /\ IsSpace(s[Len(s)])
    THEN TrimRight(SubSeq(s, 1, Len(s) - 1))
    ELSE s

\* data.trim()
trim(s) == TrimRight(TrimLeft(s))

\* msg.match(/^S([1-6])$/): the captured id, 0 for no match
RegMatch(msg) ==
    IF /\ Len(msg) = 2
       /\ msg[1] = "S"
       /\ IsDigit(msg[2])
       /\ DigitVal(msg[2]) \in 1..6
    THEN DigitVal(msg[2])
    ELSE 0

\* msg.match(/^m([1-6])/): the captured id, 0 for no match.  The pattern is
\* not anchored at its end: whatever follows the first digit is ignored.
DataMatch(msg) ==
    IF /\ Len(msg) >= 2
       /\ msg[1] = "m"
       /\ IsDigit(msg[2])
       /\ DigitVal(msg[2]) \in 1..6
    THEN DigitVal(msg[2])
    ELSE 0

\* [^,\s]
IsTokenChar(c) == c # "," /\ ~IsSpace(c)

\* The longest run of token characters of msg from position i on
RECURSIVE TokenFrom(_, _)
TokenFrom(msg, i) ==
    IF i <= Len(msg) /\ IsTokenChar(msg[i])
    THEN <<msg[i]>> \o TokenFrom(msg, i + 1)
    ELSE <<>>

\* AxisMatch with a missing axis read as "0"
AxisMatchOrZero(msg, axis) ==
    LET at == {i \in 1..(Len(msg) - 2) :
                  /\ msg[i] = axis
                  /\ msg[i + 1] = "="
                  /\ IsTokenChar(msg[i + 2])}
    IN  IF at = {} THEN <<"0">>
        ELSE TokenFrom(msg, (CHOOSE i \in at : \A j \in at : i <= j) + 2)

\* msg.match(/x=([^,\s]+)/) for the axis letter: the capture of the leftmost
\* match, <<>> for no match (a capture is never empty)
AxisMatch(msg, axis) ==
    LET at == {i \in 1..(Len(msg) - 2) :
                  /\ msg[i] = axis
                  /\ msg[i + 1] = "="
                  /\ IsTokenChar(msg[i + 2])}
    IN  IF at = {} THEN <<>>
        ELSE TokenFrom(msg, (CHOOSE i \in at : \A j \in at : i <= j) + 2)

\* The value of the decimal digits d (most significant first)
RECURSIVE DigitsValue(_, _)
DigitsValue(d, acc) ==
    IF d = <<>> THEN acc
    ELSE DigitsValue(Tail(d), 10 * acc + DigitVal(Head(d)))

\* The longest prefix of s made of digits
RECURSIVE DigitPrefix(_)
DigitPrefix(s) ==
    IF s # <<>> /\ IsDigit(Head(s))
    THEN <<Head(s)>> \o DigitPrefix(Tail(s))
    ELSE <<>>

InfinityWord == <<"I", "n", "f", "i", "n", "i", "t", "y">>

StartsWith(s, w) == Len(s) >= Len(w) /\ SubSeq(s, 1, Len(w)) = w

\* parseFloat(tok), for tokens over digits, signs and letters (no decimal
\* point or exponent): an optional sign, then Infinity or the longest run of
\* digits; NaN when there is neither
parseFloat(tok) ==
    LET s      == TrimLeft(tok)
        signed == s # <<>> /\ Head(s) \in {"-", "+"}
        sign   == IF s # <<>> /\ Head(s) = "-" THEN -1 ELSE 1
        body   == IF signed THEN Tail(s) ELSE s
        digits == DigitPrefix(body)
    IN  IF StartsWith(body, InfinityWord) THEN Inf(sign)
        ELSE IF digits = <<>> THEN NaN
        ELSE Fin(sign * DigitsValue(digits, 0))

\* The decimal digits of n >= 0
RECURSIVE DigitsOf(_)
DigitsOf(n) ==
    IF n < 10 THEN <<DigitChars[n + 1]>>
    ELSE DigitsOf(n \div 10) \o <<DigitChars[(n % 10) + 1]>>

\* Number-to-string conversion of the sender's `"m" + id + " x=" + ...`
NumberToString(n) == IF n < 0 THEN <<"-">> \o DigitsOf(-n) ELSE DigitsOf(n)

\* microbit-sender.js: `let hello = "S" + id`
SenderHello(id) == <<"S">> \o NumberToString(id)

\* microbit-sender.js: `s = "m" + id + " x=" + ... + " y=" + ... + " z=" + ...`
SenderData(id, ax, ay, az) ==
    <<"m">> \o NumberToString(id)
      \o <<" ", "x", "=">> \o NumberToString(ax)
      \o <<" ", "y", "=">> \o NumberToString(ay)
      \o <<" ", "z", "=">> \o NumberToString(az)

\* microbit-receiver: `serial.writeString(receivedString + "\n")`
ReceiverForward(receivedString) == receivedString \o <<"\n">>

---------------------------------------------------------------------------
(* sketch.js: class DataStream *)

VARIABLES
    streamData,         \* sketch.js: id -> DataStream, for the registered ids
    streams,            \* part_001: id -> DataStream, for the registered ids
    messageCount,       \* messages parsed since the last statistics reset
    lastLogTime,        \* millis() of the last statistics reset
    messagesPerSecond,  \* the count of the last complete statistics period
    bufferBacklogDetected,      \* part_001: the last frame hit its limit
    consecutiveBacklogFrames,   \* part_001: frames in a row that hit it
    portOpened,         \* port.opened()
    port,               \* the lines the serial port holds, oldest first
    now,                \* the clock: Date.now() and millis(), in ms
    arrived,            \* history: the lines the port has received so far
    clearCalls          \* history: the calls of clearSerialBuffer so far

\* constructor(id), at time t
NewDataStream(id, t) ==
    [id                 |-> id,
     lastUpdate         |-> t,
     x                  |-> Fin(0),
     y                  |-> Fin(0),
     z                  |-> Fin(0),
     rawX               |-> Fin(0),
     rawY               |-> Fin(0),
     rawZ               |-> Fin(0),
     calibrating        |-> TRUE,
     calibrationData    |-> <<>>,
     baseX              |-> Fin(0),
     baseY              |-> Fin(0),
     baseZ              |-> Fin(0),
     deadzone           |-> Fin(2500),
     calibrationNoise   |-> Fin(0),
     motionThresholds   |-> <<Fin(2000), Fin(5000), Fin(10000), Fin(20000)>>,
     motion             |-> 0,
     distanceSq         |-> Fin(0),
     calibrationQuality |-> "UNKNOWN",
     lastMotionTime     |-> t]

\* startCalibration that also forgets the motion level
startCalibrationForgetful(s) ==
    [s EXCEPT !.calibrating = TRUE, !.calibrationData = <<>>, !.motion = 0]

\* startCalibration that keeps the buffer
startCalibrationKeeping(s) == [s EXCEPT !.calibrating = TRUE]

\* startCalibration()
startCalibration(s) ==
    [s EXCEPT !.calibrating = TRUE, !.calibrationData = <<>>]

\* isActive with the timeout included
isActiveInclusive(s, t) == t - s.lastUpdate <= ACTIVE_TIMEOUT

\* isActive(), at time t
isActive(s, t) == t - s.lastUpdate < ACTIVE_TIMEOUT

\* A raw value (mg) as a display value (1/100 mg)
ToDisplay(a) == Scale(a, 100, 1)

\* `sumX += d.x` over the calibration samples lo..hi, for one axis.  The
\* loop adds from the left; Add is associative, and the sum is split in
\* halves to keep the evaluation shallow.
RECURSIVE SumAxis(_, _, _, _)
SumAxis(data, axis, lo, hi) ==
    IF lo > hi THEN Fin(0)
    ELSE IF lo = hi THEN data[lo][axis]
    ELSE LET mid == (lo + hi) \div 2
         IN  Add(SumAxis(data, axis, lo, mid), SumAxis(data, axis, mid + 1, hi))

\* `varX += Math.pow(d.x - this.baseX, 2)` over the calibration samples
\* lo..hi
RECURSIVE SumSquares(_, _, _, _, _)
SumSquares(data, axis, base, lo, hi) ==
    IF lo > hi THEN Fin(0)
    ELSE IF lo = hi
         THEN LET d == Sub(data[lo][axis], base) IN Mul(d, d)
    ELSE LET mid == (lo + hi) \div 2
         IN  Add(SumSquares(data, axis, base, lo, mid),
                 SumSquares(data, axis, base, mid + 1, hi))

\* Quality with the lower boundary included in FAIR
QualityInclusive(noise) ==
    IF Gt(noise, Fin(500)) THEN "POOR - Device was moving"
    ELSE IF ~Lt(noise, Fin(250)) THEN "FAIR - Some movement detected"
    ELSE "GOOD - Device was steady"

\* The quality strings of finishCalibration
Quality(noise) ==
    IF Gt(noise, Fin(500)) THEN "POOR - Device was moving"
    ELSE IF Gt(noise, Fin(250)) THEN "FAIR - Some movement detected"
    ELSE "GOOD - Device was steady"

\* `this.deadzone = Math.max(250, this.calibrationNoise * 2.5)`, in 1/10 mg
Deadzone(noise) == MathMax(Fin(2500), Scale(noise, 25, 1))

\* `let baseThreshold = Math.max(300, this.calibrationNoise * 4)`, in 1/10 mg
BaseThreshold(noise) == MathMax(Fin(3000), Scale(noise, 40, 1))

\* `this.motionThresholds = [baseThreshold, baseThreshold * 1.8, ...]`
MotionThresholds(baseThreshold) ==
    <<baseThreshold,
      Scale(baseThreshold, 18, 10),
      Scale(baseThreshold, 35, 10),
      Scale(baseThreshold, 6, 1),
      Scale(baseThreshold, 10, 1),
      Scale(baseThreshold, 16, 1)>>

\* finishCalibration()
finishCalibration(s) ==
    LET data  == s.calibrationData
        len   == Len(data)
        baseX == Scale(SumAxis(data, "x", 1, len), 1, len)
        baseY == Scale(SumAxis(data, "y", 1, len), 1, len)
        baseZ == Scale(SumAxis(data, "z", 1, len), 1, len)
        stdX  == MathSqrt(Scale(SumSquares(data, "x", baseX, 1, len), 1, len))
        stdY  == MathSqrt(Scale(SumSquares(data, "y", baseY, 1, len), 1, len))
        stdZ  == MathSqrt(Scale(SumSquares(data, "z", baseZ, 1, len), 1, len))
        noise == MathSqrt(Add(Add(Mul(stdX, stdX), Mul(stdY, stdY)),
                              Mul(stdZ, stdZ)))
    IN  [s EXCEPT
           !.baseX = baseX,
           !.baseY = baseY,
           !.baseZ = baseZ,
           !.calibrationNoise = noise,
           !.calibrationQuality = Quality(noise),
           !.deadzone = Deadzone(noise),
           !.motionThresholds = MotionThresholds(BaseThreshold(noise)),
           !.x = ToDisplay(baseX),
           !.y = ToDisplay(baseY),
           !.z = ToDisplay(baseZ),
           !.calibrating = FALSE]

\* `this.motionThresholds[level]` (0-based); an index past the end reads
\* undefined, which compares like NaN
ThresholdAt(th, level) ==
    IF level + 1 \in DOMAIN th THEN th[level + 1] ELSE NaN

\* `this.x + (x - this.x) * alpha` with alpha = 0.15
Smooth(cur, raw) == Add(cur, Scale(Sub(ToDisplay(raw), cur), 15, 100))

\* DistanceSq measured from the smoothed value, not from the raw sample
DistanceSqSmoothed(s, x, y, z) ==
    LET dx == Sub(Scale(Smooth(s.x, x), 1, 100), s.baseX)
        dy == Sub(Scale(Smooth(s.y, y), 1, 100), s.baseY)
        dz == Sub(Scale(Smooth(s.z, z), 1, 100), s.baseZ)
    IN  Add(Add(Mul(dx, dx), Mul(dy, dy)), Mul(dz, dz))

\* The square of `Math.sqrt(dx * dx + dy * dy + dz * dz)`
DistanceSq(s, x, y, z) ==
    LET dx == Sub(x, s.baseX)
        dy == Sub(y, s.baseY)
        dz == Sub(z, s.baseZ)
    IN  Add(Add(Mul(dx, dx), Mul(dy, dy)), Mul(dz, dz))

\* `if (effectiveDistance < this.deadzone) effectiveDistance = 0`
Effective(d2, deadzone) == IF RootLt(d2, deadzone) THEN Fin(0) ELSE d2

\* Increase that raises the level by one step per sample
IncreaseByOne(s, eff) ==
    LET met == {level \in 0..5 :
                   RootGe(eff, ThresholdAt(s.motionThresholds, level))}
    IN  IF met = {} THEN s.motion
        ELSE LET top == (CHOOSE l \in met : \A m \in met : m <= l) + 1
             IN  IF top > s.motion + 1 THEN s.motion + 1 ELSE top

\* `for (let level = 5; level >= 0; level--) if (effectiveDistance >=
\* this.motionThresholds[level]) { newMotion = level + 1; break; }`
\* newMotion keeps this.motion when no threshold is met
Increase(s, eff) ==
    LET met == {level \in 0..5 :
                   RootGe(eff, ThresholdAt(s.motionThresholds, level))}
    IN  IF met = {} THEN s.motion
        ELSE (CHOOSE l \in met : \A m \in met : m <= l) + 1

\* `if (newMotion < this.motion) { ... newMotion = this.motion }`
Hysteresis(s, eff, newMotion) ==
    LET hysteresis     == Scale(ThresholdAt(s.motionThresholds, 0), 2, 10)
        thresholdIndex == s.motion - 1
    IN  IF /\ newMotion < s.motion
           /\ thresholdIndex >= 0
           /\ RootGt(eff, Sub(ThresholdAt(s.motionThresholds, thresholdIndex),
                              hysteresis))
        THEN s.motion
        ELSE newMotion

\* Unstick with the timeout included
UnstickInclusive(s, eff, newMotion, t) ==
    IF /\ s.motion > 0
       /\ newMotion = s.motion
       /\ RootLt(eff, s.deadzone)
       /\ t - s.lastMotionTime >= STUCK_TIMEOUT
    THEN 0
    ELSE newMotion

\* `if (this.motion > 0 && newMotion === this.motion && effectiveDistance <
\* this.deadzone) if (Date.now() - this.lastMotionTime > 2000) newMotion = 0`
Unstick(s, eff, newMotion, t) ==
    IF /\ s.motion > 0
       /\ newMotion = s.motion
       /\ RootLt(eff, s.deadzone)
       /\ t - s.lastMotionTime > STUCK_TIMEOUT
    THEN 0
    ELSE newMotion

\* CalibrationDone one sample early
CalibrationDoneEarly(data) == Len(data) >= N - 1

\* CalibrationDone one sample late
CalibrationDoneLate(data) == Len(data) > N

\* CalibrationDone that never holds
CalibrationDoneNever(data) == FALSE

\* `if (this.calibrationData.length >= 60)`
CalibrationDone(data) == Len(data) >= N

\* The level left as it is
CapMotionNone(newMotion) == newMotion

\* `Math.min(5, newMotion)`
CapMotion(newMotion) == IF newMotion > 5 THEN 5 ELSE newMotion

\* update(x, y, z), at time t
update(s, x, y, z, t) ==
    IF isNaN(x) \/ isNaN(y) \/ isNaN(z) THEN s
    ELSE
    LET r == [s EXCEPT !.rawX = x, !.rawY = y, !.rawZ = z]
    IN  IF s.calibrating
        THEN LET c == [r EXCEPT
                         !.calibrationData =
                             Append(@, [x |-> x, y |-> y, z |-> z]),
                         !.x = ToDisplay(x),
                         !.y = ToDisplay(y),
                         !.z = ToDisplay(z)]
                 f == IF CalibrationDone(c.calibrationData)
                      THEN finishCalibration(c)
                      ELSE c
             IN  [f EXCEPT !.lastUpdate = t]
        ELSE LET d2        == DistanceSq(s, x, y, z)
                 eff       == Effective(d2, s.deadzone)
                 newMotion ==
                     Unstick(s, eff, Hysteresis(s, eff, Increase(s, eff)), t)
             IN  [r EXCEPT
                    !.x = Smooth(s.x, x),
                    !.y = Smooth(s.y, y),
                    !.z = Smooth(s.z, z),
                    !.distanceSq = d2,
                    !.lastMotionTime =
                        IF newMotion # s.motion THEN t ELSE @,
                    !.motion = CapMotion(newMotion),
                    !.lastUpdate = t]

---------------------------------------------------------------------------
(* sketch.js: parseMessage, keyPressed, updateStats, draw *)

\* Register that replaces the stream of a registered id
RegisterAlways(sd, id, t) ==
    [i \in DOMAIN sd \cup {id} |->
        IF i = id THEN NewDataStream(id, t) ELSE sd[i]]

\* Register that creates nothing
RegisterNever(sd, id, t) == sd

\* Register that starts every stream afresh when a new id registers
RegisterFresh(sd, id, t) ==
    IF id \in DOMAIN sd THEN sd
    ELSE [i \in DOMAIN sd \cup {id} |-> NewDataStream(i, t)]

\* Register that replaces a stream that is no longer active
RegisterExpiring(sd, id, t) ==
    IF id \in DOMAIN sd /\ ~isActive(sd[id], t)
    THEN [i \in DOMAIN sd |-> IF i = id THEN NewDataStream(id, t) ELSE sd[i]]
    ELSE IF id \in DOMAIN sd THEN sd
    ELSE sd @@ (id :> NewDataStream(id, t))

\* `if (!streamData[id]) streamData[id] = new DataStream(id)`, at time t
Register(sd, id, t) ==
    IF id \in DOMAIN sd THEN sd ELSE sd @@ (id :> NewDataStream(id, t))

\* streamData after the body of parseMessage(msg), at time t
Registry(sd, msg, t) ==
    LET reg  == RegMatch(msg)
        data == DataMatch(msg)
    IN  IF reg # 0 THEN Register(sd, reg, t)
        ELSE IF data # 0
        THEN LET sd1 == Register(sd, data, t)
                 xm  == AxisMatch(msg, "x")
                 ym  == AxisMatch(msg, "y")
                 zm  == AxisMatch(msg, "z")
             IN  IF xm # <<>> /\ ym # <<>> /\ zm # <<>>
                 THEN [id \in DOMAIN sd1 |->
                          IF id = data
                          THEN update(sd1[id], parseFloat(xm), parseFloat(ym),
                                      parseFloat(zm), t)
                          ELSE sd1[id]]
                 ELSE sd1
        ELSE sd

\* streamData after `for (let id in streamData) if (streamData[id].isActive())
\* streamData[id].startCalibration()`
RecalibrateActive(sd, t) ==
    [id \in DOMAIN sd |->
        IF isActive(sd[id], t) THEN startCalibration(sd[id]) ELSE sd[id]]

---------------------------------------------------------------------------
(* sketch.js: draw and updateStats *)

\* streamData after parseMessage(line.trim()) for the lines lo..hi of
\* lines, in order; the run is split in halves, the first half evaluated
\* before the second, to keep the evaluation shallow
RECURSIVE ParseAll(_, _, _, _, _)
ParseAll(sd, lines, lo, hi, t) ==
    IF lo > hi THEN sd
    ELSE IF lo = hi THEN Registry(sd, trim(lines[lo]), t)
    ELSE LET mid   == (lo + hi) \div 2
             first == ParseAll(sd, lines, lo, mid, t)
         IN  IF first = sd
             THEN ParseAll(sd, lines, mid + 1, hi, t)
             ELSE ParseAll(first, lines, mid + 1, hi, t)

\* The reads of one draw(): `for (let i = 0; i < 50; i++) { let data =
\* port.readUntil("\n"); if (!data) break; ... }`
SketchReads(p, opened) ==
    IF opened THEN Min(SKETCH_READS_PER_FRAME, Len(p)) ELSE 0

\* updateStats(), at time t, as <<messagesPerSecond, messageCount,
\* lastLogTime>>
updateStats(mps, count, last, t) ==
    IF t - last >= STATS_PERIOD THEN <<count, 0, t>> ELSE <<mps, count, last>>

---------------------------------------------------------------------------
(* part_001: the DataStream of the graph sketch.  The plotted arrays     *)
(* (xData, yData, zData), the plot scale (maxDeviation) and the          *)
(* visibility flags are drawing state and are left out.  smoothed values *)
(* are in 1/100 mg, the smoothing factor in 1/1000.                      *)

\* constructor(id), at time t
NewGraphStream(id, t) ==
    [id                 |-> id,
     baselineX          |-> Fin(0),
     baselineY          |-> Fin(0),
     baselineZ          |-> Fin(0),
     isCalibrated       |-> FALSE,
     smoothedX          |-> Fin(0),
     smoothedY          |-> Fin(0),
     smoothedZ          |-> Fin(0),
     smoothingFactor    |-> Fin(200),
     isCalibrating      |-> FALSE,
     calibrationSamples |-> <<>>,
     calibrationFrames  |-> 0,
     noiseThresholdX    |-> Fin(0),
     noiseThresholdY    |-> Fin(0),
     noiseThresholdZ    |-> Fin(0),
     lastUpdate         |-> t]

\* calculateStdDev(samples, axis)
calculateStdDev(samples, axis) ==
    LET len  == Len(samples)
        mean == Scale(SumAxis(samples, axis, 1, len), 1, len)
    IN  MathSqrt(Scale(SumSquares(samples, axis, mean, 1, len), 1, len))

\* `map(avgNoise, 5, 50, 0.05, 0.5)` and `constrain(.., 0.05, 0.5)`
NoiseFactor(avgNoise) ==
    LET mapped == Add(Scale(Sub(avgNoise, Fin(5)), 450, 45), Fin(50))
    IN  MathMax(MathMin(mapped, Fin(500)), Fin(50))

\* finishCalibration() of part_001
graphFinishCalibration(s) ==
    IF Len(s.calibrationSamples) < GRAPH_SAMPLES
    THEN [s EXCEPT !.isCalibrating = FALSE]
    ELSE
    LET samples == s.calibrationSamples
        len     == Len(samples)
        stdX    == calculateStdDev(samples, "x")
        stdY    == calculateStdDev(samples, "y")
        stdZ    == calculateStdDev(samples, "z")
        avg     == Scale(Add(Add(stdX, stdY), stdZ), 1, 3)
        baseX   == Scale(SumAxis(samples, "x", 1, len), 1, len)
        baseY   == Scale(SumAxis(samples, "y", 1, len), 1, len)
        baseZ   == Scale(SumAxis(samples, "z", 1, len), 1, len)
    IN  [s EXCEPT
           !.noiseThresholdX = Scale(stdX, 2, 1),
           !.noiseThresholdY = Scale(stdY, 2, 1),
           !.noiseThresholdZ = Scale(stdZ, 2, 1),
           !.smoothingFactor = NoiseFactor(avg),
           !.baselineX = baseX,
           !.baselineY = baseY,
           !.baselineZ = baseZ,
           !.smoothedX = ToDisplay(baseX),
           !.smoothedY = ToDisplay(baseY),
           !.smoothedZ = ToDisplay(baseZ),
           !.isCalibrated = TRUE,
           !.isCalibrating = FALSE]

\* addCalibrationSample(x, y, z)
addCalibrationSample(s, x, y, z) ==
    LET c == [s EXCEPT
                !.calibrationSamples = Append(@, [x |-> x, y |-> y, z |-> z]),
                !.calibrationFrames = @ + 1]
    IN  IF c.calibrationFrames >= GRAPH_SAMPLES
        THEN graphFinishCalibration(c)
        ELSE c

\* smoothValue(currentSmoothed, newValue, factor)
smoothValue(currentSmoothed, newValue, factor) ==
    Add(currentSmoothed,
        Scale(Mul(Sub(ToDisplay(newValue), currentSmoothed), factor),
              1, 1000))

\* The data branch of parseSerialMessage from `if (stream.isCalibrating)`
\* on, for parsed values x, y, z, at time t; addDataPoint sets lastUpdate
graphUpdate(s, x, y, z, t) ==
    IF s.isCalibrating THEN addCalibrationSample(s, x, y, z)
    ELSE IF /\ s.smoothedX = Fin(0)
            /\ s.smoothedY = Fin(0)
            /\ s.smoothedZ = Fin(0)
    THEN [s EXCEPT
            !.smoothedX = ToDisplay(x),
            !.smoothedY = ToDisplay(y),
            !.smoothedZ = ToDisplay(z),
            !.lastUpdate = t]
    ELSE [s EXCEPT
            !.smoothedX = smoothValue(@, x, s.smoothingFactor),
            !.smoothedY = smoothValue(@, y, s.smoothingFactor),
            !.smoothedZ = smoothValue(@, z, s.smoothingFactor),
            !.lastUpdate = t]

\* `if (!streams[streamId]) streams[streamId] = new DataStream(streamId)`
GraphRegister(ss, id, t) ==
    IF id \in DOMAIN ss THEN ss ELSE ss @@ (id :> NewGraphStream(id, t))

\* streams after the body of parseSerialMessage(message), at time t
parseSerialMessage(ss, message, t) ==
    LET regMatch  == RegMatch(message)
        dataMatch == DataMatch(message)
    IN  IF regMatch # 0 THEN GraphRegister(ss, regMatch, t)
        ELSE IF dataMatch # 0
        THEN LET ss1    == GraphRegister(ss, dataMatch, t)
                 xMatch == AxisMatch(message, "x")
                 yMatch == AxisMatch(message, "y")
                 zMatch == AxisMatch(message, "z")
             IN  IF xMatch = <<>> \/ yMatch = <<>> \/ zMatch = <<>>
                 THEN ss1
                 ELSE [id \in DOMAIN ss1 |->
                          IF id = dataMatch
                          THEN graphUpdate(ss1[id], parseFloat(xMatch),
                                           parseFloat(yMatch),
                                           parseFloat(zMatch), t)
                          ELSE ss1[id]]
        ELSE ss

\* streams after parseSerialMessage(line.trim()) for the lines lo..hi of
\* lines, in order
RECURSIVE GraphParseAll(_, _, _, _, _)
GraphParseAll(ss, lines, lo, hi, t) ==
    IF lo > hi THEN ss
    ELSE IF lo = hi THEN parseSerialMessage(ss, trim(lines[lo]), t)
    ELSE LET mid   == (lo + hi) \div 2
             first == GraphParseAll(ss, lines, lo, mid, t)
         IN  IF first = ss
             THEN GraphParseAll(ss, lines, mid + 1, hi, t)
             ELSE GraphParseAll(first, lines, mid + 1, hi, t)

\* The reads of one draw() of part_001: `while (messagesThisFrame <
\* MAX_MESSAGES_PER_FRAME)`, ended early by an empty port
GraphReads(p, opened) ==
    IF opened THEN Min(MAX_MESSAGES_PER_FRAME, Len(p)) ELSE 0

\* Cleared for a loop without the safety limit
ClearedAll(p) == Len(p)

\* Cleared for a loop that reads no line
ClearedNone(p) == 0

\* The lines clearSerialBuffer() discards: `while (cleared < MAX_CLEAR)`
Cleared(p) == Min(MAX_CLEAR, Len(p))

\* The first n lines of p are read
Drop(p, n) == SubSeq(p, n + 1, Len(p))

---------------------------------------------------------------------------
(* The environment: the lines the senders produce, the clock, the keyboard *)

\* Bounds of the model
MaxNow == 5000

\* The instants at which the clock is read
ClockInstants == {t \in {0, 1, 2001, 5000, 7001, 9002} : t <= MaxNow}

\* Accelerometer readings (x, y, z), in mg
StillPose == <<0, 0, 1000>>

MovedPose == <<600, 0, 1000>>

Poses == {StillPose, MovedPose}

\* A data line with the given id and axis tokens; an empty token stands for
\* an axis that is missing from the line altogether
TokenLine(id, xt, yt, zt) ==
    <<"m">> \o id
      \o (IF xt = <<>> THEN <<>> ELSE <<" ", "x", "=">> \o xt)
      \o (IF yt = <<>> THEN <<>> ELSE <<" ", "y", "=">> \o yt)
      \o (IF zt = <<>> THEN <<>> ELSE <<" ", "z", "=">> \o zt)

PoseLine(id, p) == SenderData(id, p[1], p[2], p[3])

\* Lines whose id is outside 1..6
OutOfRangeLines ==
    {SenderHello(i) : i \in {0, 7, 10}}
      \cup {PoseLine(i, StillPose) : i \in {0, 7, 10}}

\* Data lines for stream 1 with a token that is not a finite number
NonFiniteLines ==
    {TokenLine(<<"1">>, <<"N", "a", "N">>, <<"0">>, <<"1", "0", "0", "0">>),
     TokenLine(<<"1">>, <<"0">>, <<"0">>, InfinityWord)}

\* Data lines for stream 1 that lack an axis token
MissingAxisLines ==
    {TokenLine(<<"1">>, <<"0">>, <<"0">>, <<>>),
     TokenLine(<<"1">>, <<>>, <<"0">>, <<"1", "0", "0", "0">>)}

\* Lines that are neither a registration nor a data line
UnrecognizedLines == {<<>>, <<"h", "i">>}

Lines ==
    {SenderHello(1), SenderHello(2)}
      \cup {PoseLine(1, p) : p \in Poses}
      \cup {PoseLine(2, StillPose)}
      \cup OutOfRangeLines
      \cup NonFiniteLines
      \cup MissingAxisLines
      \cup UnrecognizedLines

Keys == {"s", "c", "C"}

\* The sample a line carries: the three parsed values, for a line that
\* parseMessage hands to update and update does not reject
Carries(msg) ==
    /\ DataMatch(msg) # 0
    /\ AxisMatch(msg, "x") # <<>>
    /\ AxisMatch(msg, "y") # <<>>
    /\ AxisMatch(msg, "z") # <<>>
    /\ ~isNaN(parseFloat(AxisMatch(msg, "x")))
    /\ ~isNaN(parseFloat(AxisMatch(msg, "y")))
    /\ ~isNaN(parseFloat(AxisMatch(msg, "z")))

SampleOf(msg) ==
    [x |-> parseFloat(AxisMatch(msg, "x")),
     y |-> parseFloat(AxisMatch(msg, "y")),
     z |-> parseFloat(AxisMatch(msg, "z"))]

\* The buffer lengths at which a device may change its reading while its
\* stream calibrates
SwitchPoints == {0, N \div 2}

\* The length of a burst that is cut short
ShortBurst == 2

\* The device a line comes from, 0 for a line of no device
DeviceOf(msg) ==
    IF RegMatch(msg) # 0 THEN RegMatch(msg) ELSE DataMatch(msg)

\* The pacing of the senders.  Device 2 is switched on at the first instant
\* only and sends a short burst.  While a stream calibrates for the first
\* time its device holds its reading except at the switch points; a stream
\* that is calibrated again gets a short burst; a calibrated stream gets at
\* most one sample per clock instant.
Paced(sd, msg, t) ==
    LET id == DataMatch(msg)
    IN  /\ DeviceOf(msg) = 2 => t = 0
        /\ (Carries(msg) /\ id \in DOMAIN sd) =>
               IF sd[id].calibrating
               THEN LET data == sd[id].calibrationData
                    IN  IF id = 2 \/ sd[id].calibrationQuality # "UNKNOWN"
                        THEN Len(data) < ShortBurst
                        ELSE IF Len(data) \in SwitchPoints THEN TRUE
                        ELSE data[Len(data)] = SampleOf(msg)
               ELSE sd[id].lastUpdate < t

\* No stream is in the middle of a long burst: the samples of a burst
\* arrive within one clock instant
Settled(sd) ==
    \A id \in DOMAIN sd :
        sd[id].calibrating => Len(sd[id].calibrationData) <= ShortBurst

---------------------------------------------------------------------------
(* The registry under an arbitrary sequence of lines, key presses and clock *)
(* readings.  parseMessage is taken from its first match on: the message   *)
(* statistics (messageCount and friends) are written by no code that reads *)
(* the registry and read by none that writes it; SpecDraw has them.        *)

vars ==
    <<streamData, streams, messageCount, lastLogTime, messagesPerSecond,
      bufferBacklogDetected, consecutiveBacklogFrames, portOpened, port, now,
      arrived, clearCalls>>

\* The variables of part_001 alone, and the histories
graphVars ==
    <<streams, bufferBacklogDetected, consecutiveBacklogFrames, clearCalls>>

\* The globals after setup(), before any line has arrived
Init ==
    /\ streamData = <<>>
    /\ streams = <<>>
    /\ messageCount = 0
    /\ lastLogTime = 0
    /\ messagesPerSecond = 0
    /\ bufferBacklogDetected = FALSE
    /\ consecutiveBacklogFrames = 0
    /\ portOpened \in BOOLEAN
    /\ port = <<>>
    /\ now = 0
    /\ arrived = 0
    /\ clearCalls = 0

\* parseMessage(msg) from `let reg = ...` on, for a line draw() has read
Dispatch(msg) ==
    /\ portOpened
    /\ Paced(streamData, msg, now)
    /\ streamData' = Registry(streamData, msg, now)
    /\ UNCHANGED <<messageCount, lastLogTime, messagesPerSecond, portOpened,
                   port, now, arrived, graphVars>>

\* keyPressed() with the given key
KeyPressed(key) ==
    /\ portOpened' = IF key \in {"s", "S"} THEN TRUE ELSE portOpened
    /\ streamData' = IF key \in {"c", "C"}
                     THEN RecalibrateActive(streamData, now)
                     ELSE streamData
    /\ UNCHANGED <<messageCount, lastLogTime, messagesPerSecond, port, now,
                   arrived, graphVars>>

\* Time passes
AdvanceClock(t) ==
    /\ t > now
    /\ Settled(streamData)
    /\ now' = t
    /\ UNCHANGED <<streamData, messageCount, lastLogTime, messagesPerSecond,
                   portOpened, port, arrived, graphVars>>

Next ==
    \/ \E msg \in Lines : Dispatch(msg)
    \/ \E key \in Keys : KeyPressed(key)
    \/ \E t \in ClockInstants : AdvanceClock(t)

Spec == Init /\ [][Next]_vars

---------------------------------------------------------------------------
(* The registry's properties, under Spec *)

IsFinite(a) == a.k = "fin"

\* The line carries three finite numbers
FiniteSample(msg) ==
    /\ Carries(msg)
    /\ IsFinite(SampleOf(msg).x)
    /\ IsFinite(SampleOf(msg).y)
    /\ IsFinite(SampleOf(msg).z)

\* The smoothed values are the raw values, in display units
ShowsRaw(s) ==
    /\ s.x = ToDisplay(s.rawX)
    /\ s.y = ToDisplay(s.rawY)
    /\ s.z = ToDisplay(s.rawZ)

\* C1: while a stream calibrates, every data line with three finite numbers
\* adds its sample to the buffer; after a sample the stream still calibrates
\* if the buffer holds fewer than N = 60 samples and is ready if it holds N;
\* a stream becomes ready at no other step, and a ready stream calibrates
\* again only by a recalibration request.
C1_CalibrationCompletes ==
    /\ [](\A msg \in Lines :
             LET id == DataMatch(msg)
             IN  (/\ FiniteSample(msg)
                  /\ id \in DOMAIN streamData
                  /\ streamData[id].calibrating)
                     => Registry(streamData, msg, now)[id].calibrationData
                            = Append(streamData[id].calibrationData,
                                     SampleOf(msg)))
    /\ [][\A id \in DOMAIN streamData :
             LET s    == streamData[id]
                 s2   == streamData'[id]
                 grew == Len(s2.calibrationData)
                             = Len(s.calibrationData) + 1
             IN  /\ (s.calibrating /\ grew)
                        => (s2.calibrating <=> Len(s2.calibrationData) < N)
                 /\ (s.calibrating /\ ~s2.calibrating)
                        => (grew /\ Len(s2.calibrationData) = N)
                 /\ (s.calibrating /\ s2.calibrating)
                        => Len(s2.calibrationData) < N
                 /\ (~s.calibrating /\ s2.calibrating)
                        => streamData' = RecalibrateActive(streamData, now)
         ]_vars

\* A stream completed its calibration with N samples and has classified
\* later samples since
C1_Witness ==
    /\ 1 \in DOMAIN streamData
    /\ ~streamData[1].calibrating
    /\ Len(streamData[1].calibrationData) = N
    /\ streamData[1].motion > 0

\* C2: a data line with a value that is not a finite number (NaN, Infinity)
\* changes no field of its stream.
C2_NonFiniteRejected ==
    \A msg \in NonFiniteLines :
        LET id == DataMatch(msg)
        IN  id \in DOMAIN streamData
                => Registry(streamData, msg, now)[id] = streamData[id]

\* C3: a registration or data line whose id is outside 1..6 (0, 7, 10)
\* creates no stream and changes no stream.
C3_OutOfRangeRejected ==
    \A msg \in OutOfRangeLines : Registry(streamData, msg, now) = streamData

\* C4: a data line for a registered id that lacks an axis token leaves the
\* registry, and so its stream, unchanged, whether the stream calibrates or
\* is ready.
C4_MissingAxisIgnored ==
    \A msg \in MissingAxisLines :
        DataMatch(msg) \in DOMAIN streamData
            => Registry(streamData, msg, now) = streamData

\* A ready stream that has moved, and a line without z that can be
\* dispatched to it
C4_Witness ==
    /\ portOpened
    /\ 1 \in DOMAIN streamData
    /\ ~streamData[1].calibrating
    /\ streamData[1].motion > 0
    /\ streamData[1].lastUpdate < now
    /\ \E msg \in MissingAxisLines :
          /\ DataMatch(msg) = 1
          /\ AxisMatch(msg, "z") = <<>>
          /\ Paced(streamData, msg, now)

\* C5: a registration line for an id that has a stream leaves every field of
\* every stream unchanged, in whatever state the stream is.
C5_RegistrationIdempotent ==
    \A msg \in Lines :
        RegMatch(msg) \in DOMAIN streamData
            => Registry(streamData, msg, now) = streamData

\* A calibrated stream with a baseline and a noise level of its own, to
\* which its registration line can be dispatched again
C5_Witness ==
    /\ portOpened
    /\ 1 \in DOMAIN streamData
    /\ ~streamData[1].calibrating
    /\ streamData[1].baseX # Fin(0)
    /\ streamData[1].calibrationNoise # Fin(0)
    /\ streamData[1].lastUpdate < now
    /\ RegMatch(SenderHello(1)) = 1

\* C6: the first registration or data line for an id without a stream
\* creates the stream, calibrating; its buffer is empty unless the line
\* carries a sample, and holds exactly the sample of a line with three finite
\* numbers (the lines with an infinite value are the subject of C2); no
\* step removes a stream.
C6_LazyCreation ==
    /\ [](\A msg \in Lines :
             LET id  == DeviceOf(msg)
                 sd2 == Registry(streamData, msg, now)
             IN  (id # 0 /\ id \notin DOMAIN streamData) =>
                     /\ id \in DOMAIN sd2
                     /\ sd2[id].calibrating
                     /\ FiniteSample(msg)
                            => sd2[id].calibrationData = <<SampleOf(msg)>>
                     /\ ~Carries(msg) => sd2[id].calibrationData = <<>>)
    /\ [][DOMAIN streamData \subseteq DOMAIN streamData']_vars

\* Stream 1 was created by its registration line and stream 2 by a data
\* line, whose sample is all its buffer holds
C6_Witness ==
    /\ DOMAIN streamData = {1, 2}
    /\ streamData[1].calibrating
    /\ streamData[1].calibrationData = <<>>
    /\ streamData[2].calibrating
    /\ streamData[2].calibrationData = <<SampleOf(PoseLine(2, StillPose))>>

\* C7: a recalibration request makes every stream with now - lastUpdate <
\* 5000 calibrate with an empty buffer and leaves every other stream as it
\* is; and no step empties the buffer of a stream, or makes a ready stream
\* calibrate, unless the stream is active.
C7_RecalibrateActiveOnly ==
    [][\A id \in DOMAIN streamData :
          LET s  == streamData[id]
              s2 == streamData'[id]
              r  == RecalibrateActive(streamData, now)[id]
          IN  /\ IF now - s.lastUpdate < ACTIVE_TIMEOUT
                 THEN r.calibrating /\ r.calibrationData = <<>>
                 ELSE r = s
              /\ (\/ Len(s2.calibrationData) < Len(s.calibrationData)
                  \/ (~s.calibrating /\ s2.calibrating))
                     => now - s.lastUpdate < ACTIVE_TIMEOUT
      ]_vars

\* Stream 1 calibrates again after a request, and the request passed over
\* stream 2, inactive for exactly 5000 ms with a sample in its buffer
C7_Witness ==
    /\ DOMAIN streamData = {1, 2}
    /\ streamData[1].calibrating
    /\ streamData[1].calibrationQuality # "UNKNOWN"
    /\ streamData[1].calibrationData = <<>>
    /\ now - streamData[2].lastUpdate = ACTIVE_TIMEOUT
    /\ streamData[2].calibrationData # <<>>

\* C8 as amended: from the request on and for every sample until the new
\* calibration completes, a recalibrated stream keeps its motion level; its
\* smoothed values are kept by the request and are set to each sample.
C8_RecalibrationKeepsMotion ==
    [][\A id \in DOMAIN streamData :
          LET s  == streamData[id]
              s2 == streamData'[id]
          IN  (s.calibrationQuality # "UNKNOWN" /\ s2.calibrating) =>
                  /\ s2.motion = s.motion
                  /\ IF s2.calibrationData # <<>>
                        /\ s2.calibrationData # s.calibrationData
                     THEN ShowsRaw(s2)
                     ELSE s2.x = s.x /\ s2.y = s.y /\ s2.z = s.z
      ]_vars

\* A stream that had moved is calibrated again and has received a sample
\* that its smoothed values did not hold before
C8_Witness ==
    /\ 1 \in DOMAIN streamData
    /\ streamData[1].calibrating
    /\ streamData[1].calibrationQuality # "UNKNOWN"
    /\ streamData[1].calibrationData # <<>>
    /\ streamData[1].motion > 0
    /\ ShowsRaw(streamData[1])
    /\ streamData[1].x # ToDisplay(streamData[1].baseX)

\* C8 as stated: a recalibrated stream keeps its smoothed values and its
\* motion level for every sample until the new calibration completes.
C8_RecalibrationKeepsSmoothed ==
    [][\A id \in DOMAIN streamData :
          LET s  == streamData[id]
              s2 == streamData'[id]
          IN  (s.calibrationQuality # "UNKNOWN" /\ s2.calibrating) =>
                  /\ s2.motion = s.motion
                  /\ s2.x = s.x
                  /\ s2.y = s.y
                  /\ s2.z = s.z
      ]_vars

---------------------------------------------------------------------------
(* sketch.js frame by frame: lines arrive at the port in batches and      *)
(* draw() reads them                                                      *)

\* The most lines the port receives in a run
MaxArrived == 72

\* The sizes of the batches in which lines arrive
BatchSizes == {MAX_MESSAGES_PER_FRAME + 1, SKETCH_READS_PER_FRAME + 1}

\* n copies of a line, as the receiver forwards them
Batch(line, n) == [i \in 1..n |-> ReceiverForward(line)]

Batches ==
    {Batch(line, n) :
        line \in {SenderHello(1), PoseLine(1, StillPose)}, n \in BatchSizes}

\* The open port receives a batch of lines, once it has been read empty
Arrive(batch) ==
    /\ portOpened
    /\ port = <<>>
    /\ arrived + Len(batch) <= MaxArrived
    /\ port' = port \o batch
    /\ arrived' = arrived + Len(batch)
    /\ UNCHANGED <<streamData, messageCount, lastLogTime, messagesPerSecond,
                   portOpened, now, graphVars>>

\* draw() of sketch.js: the reads, parseMessage for each line read
\* (messageCount++ and the registry), then updateStats()
Draw ==
    LET k     == SketchReads(port, portOpened)
        stats == updateStats(messagesPerSecond, messageCount + k,
                             lastLogTime, now)
    IN  /\ streamData' = ParseAll(streamData, port, 1, k, now)
        /\ port' = Drop(port, k)
        /\ messagesPerSecond' = stats[1]
        /\ messageCount' = stats[2]
        /\ lastLogTime' = stats[3]
        /\ UNCHANGED <<portOpened, now, arrived, graphVars>>

NextDraw ==
    \/ \E batch \in Batches : Arrive(batch)
    \/ Draw
    \/ \E key \in Keys : KeyPressed(key)
    \/ \E t \in ClockInstants : AdvanceClock(t)

SpecDraw == Init /\ [][NextDraw]_vars

\* C10: in one draw call at most K = 20 pending lines are read from the
\* port and dispatched, however many are pending.
C10_AtMostKPerTick ==
    [][Len(port) - Len(port') <= MAX_MESSAGES_PER_FRAME]_vars

---------------------------------------------------------------------------
(* part_001 frame by frame, after one burst of lines and no further       *)
(* arrival                                                                *)

\* The sizes of the burst
BurstSizes ==
    LET KT == MAX_MESSAGES_PER_FRAME * AUTO_CLEAR_THRESHOLD
    IN  {KT + 1, KT + MAX_CLEAR, KT + MAX_CLEAR + 1,
         2 * KT + MAX_CLEAR - 1, 2 * KT + MAX_CLEAR}

\* A burst of b lines: device 1 sends the lines of the first K x T frames,
\* device 2 the lines after them
Burst(b) ==
    LET KT == MAX_MESSAGES_PER_FRAME * AUTO_CLEAR_THRESHOLD
    IN  Batch(SenderHello(1), KT) \o Batch(SenderHello(2), b - KT)

InitBurst ==
    /\ streamData = <<>>
    /\ streams = <<>>
    /\ messageCount = 0
    /\ lastLogTime = 0
    /\ messagesPerSecond = 0
    /\ bufferBacklogDetected = FALSE
    /\ consecutiveBacklogFrames = 0
    /\ portOpened = TRUE
    /\ \E b \in BurstSizes :
          /\ port = Burst(b)
          /\ arrived = b
    /\ now = 0
    /\ clearCalls = 0

\* updatePerformanceStats(), at time t, as <<messagesPerSecond,
\* messageCount, lastLogTime>>
updatePerformanceStats(mps, count, last, t) ==
    IF t - last >= STATS_PERIOD THEN <<count, 0, t>> ELSE <<mps, count, last>>

\* BacklogAfter that keeps the counter in a frame that read fewer than K
\* lines
BacklogAfterSticky(k, frames) ==
    IF k >= MAX_MESSAGES_PER_FRAME
    THEN IF frames + 1 >= AUTO_CLEAR_THRESHOLD
         THEN <<FALSE, 0, TRUE>>
         ELSE <<TRUE, frames + 1, FALSE>>
    ELSE <<FALSE, frames, FALSE>>

\* BacklogAfter with a clearSerialBuffer() that leaves the flag set
BacklogAfterFlagged(k, frames) ==
    IF k >= MAX_MESSAGES_PER_FRAME
    THEN IF frames + 1 >= AUTO_CLEAR_THRESHOLD
         THEN <<TRUE, 0, TRUE>>
         ELSE <<TRUE, frames + 1, FALSE>>
    ELSE <<FALSE, 0, FALSE>>

\* `if (messagesThisFrame >= MAX_MESSAGES_PER_FRAME) { ... } else { ... }`
\* of draw() for a frame that read k lines with the counter at frames, as
\* <<bufferBacklogDetected, consecutiveBacklogFrames, whether
\* clearSerialBuffer() was called>>; clearSerialBuffer() clears the flag
BacklogAfter(k, frames) ==
    IF k >= MAX_MESSAGES_PER_FRAME
    THEN IF frames + 1 >= AUTO_CLEAR_THRESHOLD
         THEN <<FALSE, 0, TRUE>>
         ELSE <<TRUE, frames + 1, FALSE>>
    ELSE <<FALSE, 0, FALSE>>

\* draw() of part_001: the reads, parseSerialMessage for each line read,
\* the backlog counter with clearSerialBuffer() at the threshold, then
\* updatePerformanceStats()
GraphDraw ==
    LET k       == GraphReads(port, portOpened)
        backlog == BacklogAfter(k, consecutiveBacklogFrames)
        clear   == backlog[3]
        rest    == Drop(port, k)
        stats   == updatePerformanceStats(messagesPerSecond, messageCount + k,
                                          lastLogTime, now)
    IN  /\ streams' = GraphParseAll(streams, port, 1, k, now)
        /\ port' = IF clear THEN Drop(rest, Cleared(rest)) ELSE rest
        /\ bufferBacklogDetected' =
               IF portOpened THEN backlog[1] ELSE bufferBacklogDetected
        /\ consecutiveBacklogFrames' =
               IF portOpened THEN backlog[2] ELSE consecutiveBacklogFrames
        /\ clearCalls' = IF clear THEN clearCalls + 1 ELSE clearCalls
        /\ messagesPerSecond' = stats[1]
        /\ messageCount' = stats[2]
        /\ lastLogTime' = stats[3]
        /\ UNCHANGED <<streamData, portOpened, now, arrived>>

NextBurst == GraphDraw

SpecBurst == InitBurst /\ [][NextBurst]_vars

\* The port is empty and the last frame found fewer than K lines
Drained == port = <<>> /\ ~bufferBacklogDetected

\* C9 as amended: after a single burst of more than K x T = 1200 and fewer
\* than 2 x K x T + 1000 = 3400 lines, at most one purge occurs in the run
\* and exactly one has occurred once the port is drained, with the backlog
\* counter at 0; every purge leaves the counter at 0.
C9_OnePurgePerBurst ==
    /\ []((/\ arrived > MAX_MESSAGES_PER_FRAME * AUTO_CLEAR_THRESHOLD
           /\ arrived < 2 * MAX_MESSAGES_PER_FRAME * AUTO_CLEAR_THRESHOLD
                            + MAX_CLEAR)
              => /\ clearCalls <= 1
                 /\ Drained => (clearCalls = 1
                                /\ consecutiveBacklogFrames = 0))
    /\ [][clearCalls' # clearCalls
              => (clearCalls' = clearCalls + 1
                  /\ consecutiveBacklogFrames' = 0)]_vars

\* A burst of 3399 lines is drained after its one purge: the 1199 lines
\* the purge left did not fill 60 frames
C9_Witness ==
    /\ arrived = 2 * MAX_MESSAGES_PER_FRAME * AUTO_CLEAR_THRESHOLD
                     + MAX_CLEAR - 1
    /\ Drained
    /\ clearCalls = 1
    /\ consecutiveBacklogFrames = 0
    /\ messageCount = arrived - MAX_CLEAR

\* C9 as stated: after a single burst of more than K x T lines, exactly one
\* purge occurs in the run, and the backlog counter is 0 after it.
C9_OnePurgeAnyBurst ==
    arrived > MAX_MESSAGES_PER_FRAME * AUTO_CLEAR_THRESHOLD
        => /\ clearCalls <= 1
           /\ Drained => (clearCalls = 1 /\ consecutiveBacklogFrames = 0)

---------------------------------------------------------------------------
(* The classification of a calibrated stream: one device, readings at the *)
(* boundaries of the levels, clock readings around the stuck timeout      *)

\* Readings at distance 0, 480, 600 and 5000 mg from the still reading
HoldPose == <<480, 0, 1000>>

FarPose == <<5000, 0, 1000>>

MotionPoses == {StillPose, HoldPose, MovedPose, FarPose}

MotionLines == {SenderHello(1)} \cup {PoseLine(1, p) : p \in MotionPoses}

MotionInstants == {t \in {0, 1, 2001, 2002, 5000} : t <= MaxNow}

NextMotion ==
    \/ \E msg \in MotionLines : Dispatch(msg)
    \/ \E key \in Keys : KeyPressed(key)
    \/ \E t \in MotionInstants : AdvanceClock(t)

SpecMotion == Init /\ [][NextMotion]_vars

\* The effective distance (squared) of the sample that took s to s2
EffectiveOf(s, s2) == Effective(s2.distanceSq, s.deadzone)

\* `this.motionThresholds[this.motion - 1] - hysteresis`, in 1/10 mg
HoldBound(s) ==
    Sub(ThresholdAt(s.motionThresholds, s.motion - 1),
        Scale(ThresholdAt(s.motionThresholds, 0), 2, 10))

\* C11: a sample takes a ready stream at level L >= 1 to a lower level only
\* if its effective distance is below motionThresholds[L-1] - 0.2 x
\* motionThresholds[0]; at or above that bound, the bound itself included,
\* the level does not decrease.
C11_HysteresisHold ==
    [][\A id \in DOMAIN streamData :
          LET s  == streamData[id]
              s2 == streamData'[id]
          IN  (~s.calibrating /\ ~s2.calibrating /\ s2.motion < s.motion)
                  => RootLt(EffectiveOf(s, s2), HoldBound(s))
      ]_vars

\* A sample has been classified in the step from s to s2
Classified(s, s2) == ~s.calibrating /\ ~s2.calibrating /\ s2 # s

\* C12: a sample below the deadzone leaves a ready stream at level L > 0
\* with its level and lastMotionTime while now - lastMotionTime <= 2000,
\* and sets the level to 0 and lastMotionTime to now once now -
\* lastMotionTime > 2000; at level 0 such a sample changes neither, so the
\* reset happens once.
C12_StuckReset ==
    [][\A id \in DOMAIN streamData :
          LET s  == streamData[id]
              s2 == streamData'[id]
          IN  (Classified(s, s2) /\ RootLt(s2.distanceSq, s.deadzone)) =>
                  IF s.motion > 0 /\ now - s.lastMotionTime > STUCK_TIMEOUT
                  THEN s2.motion = 0 /\ s2.lastMotionTime = now
                  ELSE /\ s2.motion = s.motion
                       /\ s2.lastMotionTime = s.lastMotionTime
      ]_vars

\* The stream was reset at 2002, the first clock reading more than 2000 ms
\* after it had moved, and a still sample at 5000 has left that as it was
C12_Witness ==
    /\ 1 \in DOMAIN streamData
    /\ ~streamData[1].calibrating
    /\ streamData[1].motion = 0
    /\ streamData[1].lastMotionTime = 2002
    /\ streamData[1].lastUpdate = 5000
    /\ RootLt(streamData[1].distanceSq, streamData[1].deadzone)

\* C13: the motion level of every stream is an integer from 0 to 5, after
\* any sequence of registrations, samples and recalibration requests.
C13_MotionLevelRange ==
    \A id \in DOMAIN streamData : streamData[id].motion \in 0..5

\* A stream at level 5 whose last sample met the sixth threshold
C13_Witness ==
    /\ 1 \in DOMAIN streamData
    /\ ~streamData[1].calibrating
    /\ streamData[1].motion = 5
    /\ RootGe(streamData[1].distanceSq,
              ThresholdAt(streamData[1].motionThresholds, 5))

---------------------------------------------------------------------------
(* The results of a calibration, under Spec *)

\* A calibration of the stream has completed
Calibrated(s) == s.calibrationQuality # "UNKNOWN"

StrictlyIncreasing(th) ==
    \A i \in 1..(Len(th) - 1) : Lt(th[i], th[i + 1])

\* C14: the motion thresholds of every stream are strictly increasing, the
\* defaults of a new stream and the thresholds set by a calibration alike,
\* and a stream that has been calibrated has exactly 6 of them.
C14_ThresholdsIncrease ==
    \A id \in DOMAIN streamData :
        /\ StrictlyIncreasing(streamData[id].motionThresholds)
        /\ Calibrated(streamData[id])
               => Len(streamData[id].motionThresholds) = 6

\* C15: the deadzone of every stream is at least 250 mg: 250 before the
\* first calibration completes, max(250, noise x 2.5) after a calibration.
C15_DeadzoneFloor ==
    \A id \in DOMAIN streamData :
        LET s == streamData[id]
        IN  /\ ~Lt(s.deadzone, Fin(2500))
            /\ ~isNaN(s.deadzone)
            /\ ~Calibrated(s) => s.deadzone = Fin(2500)
            /\ Calibrated(s) =>
                   s.deadzone = MathMax(Fin(2500),
                                        Scale(s.calibrationNoise, 25, 1))

\* C16 as amended: the calibration buffer never holds more than N = 60
\* samples; while a stream calibrates, its buffer gets shorter only by a
\* recalibration request, which the stream is active for and which empties
\* it; samples and registrations never shorten it.
C16_BufferGrowsUntilRequest ==
    [][\A id \in DOMAIN streamData :
          LET s  == streamData[id]
              s2 == streamData'[id]
          IN  /\ Len(s2.calibrationData) <= N
              /\ (/\ s.calibrating
                  /\ s2.calibrating
                  /\ Len(s2.calibrationData) < Len(s.calibrationData))
                     => /\ streamData' = RecalibrateActive(streamData, now)
                        /\ isActive(s, now)
                        /\ s2.calibrationData = <<>>
      ]_vars

\* A stream that has received a sample and has never completed a
\* calibration calibrates with an empty buffer: a request has emptied it
C16_Witness ==
    /\ 1 \in DOMAIN streamData
    /\ streamData[1].calibrating
    /\ ~Calibrated(streamData[1])
    /\ streamData[1].calibrationData = <<>>
    /\ streamData[1].rawZ = Fin(1000)

\* C16 as stated: the calibration buffer never holds more than N = 60
\* samples, and while a stream calibrates no step makes its buffer shorter.
C16_BufferNeverShrinks ==
    [][\A id \in DOMAIN streamData :
          LET s  == streamData[id]
              s2 == streamData'[id]
          IN  /\ Len(s2.calibrationData) <= N
              /\ (s.calibrating /\ s2.calibrating)
                     => Len(s2.calibrationData) >= Len(s.calibrationData)
      ]_vars

---------------------------------------------------------------------------
(* Calibration and recalibration to completion: one device that holds its *)
(* reading while its stream calibrates, except at the switch points, with *)
(* readings that put the noise at 1, 250, 251, 500 and 501 mg             *)

QuarterPose == <<500, 0, 1000>>

HalfPose == <<1000, 0, 1000>>

HalfPlusPose == <<1002, 0, 1000>>

CalPoses == {StillPose, QuarterPose, HalfPose, HalfPlusPose}

CalLines == {SenderHello(1)} \cup {PoseLine(1, p) : p \in CalPoses}

CalInstants == {t \in {0, 1} : t <= MaxNow}

\* The pacing of the device: a held reading while its stream calibrates,
\* at most one sample per clock instant once it is calibrated
Held(sd, msg, t) ==
    LET id == DataMatch(msg)
    IN  (Carries(msg) /\ id \in DOMAIN sd) =>
            IF sd[id].calibrating
            THEN LET data == sd[id].calibrationData
                 IN  IF Len(data) \in SwitchPoints THEN TRUE
                     ELSE data[Len(data)] = SampleOf(msg)
            ELSE sd[id].lastUpdate < t

\* parseMessage(msg) from `let reg = ...` on, for a line of the held device
DispatchHeld(msg) ==
    /\ portOpened
    /\ Held(streamData, msg, now)
    /\ streamData' = Registry(streamData, msg, now)
    /\ UNCHANGED <<messageCount, lastLogTime, messagesPerSecond, portOpened,
                   port, now, arrived, graphVars>>

NextCalibrate ==
    \/ \E msg \in CalLines : DispatchHeld(msg)
    \/ \E key \in Keys : KeyPressed(key)
    \/ \E t \in CalInstants : AdvanceClock(t)

SpecCalibrate == Init /\ [][NextCalibrate]_vars

RawSample(s) == [x |-> s.rawX, y |-> s.rawY, z |-> s.rawZ]

\* C18: the baseline of a calibrated stream is, axis by axis, the mean of
\* the N samples of its buffer (N x baseline = their sum), and the buffer
\* holds exactly the samples received since the calibration started: the
\* start empties it, every sample since is appended to it, and the baseline
\* changes at no step but a completion.
C18_BaselineIsMean ==
    /\ [](\A id \in DOMAIN streamData :
             LET s == streamData[id]
             IN  ~s.calibrating =>
                     /\ Len(s.calibrationData) = N
                     /\ Scale(s.baseX, N, 1)
                            = SumAxis(s.calibrationData, "x", 1, N)
                     /\ Scale(s.baseY, N, 1)
                            = SumAxis(s.calibrationData, "y", 1, N)
                     /\ Scale(s.baseZ, N, 1)
                            = SumAxis(s.calibrationData, "z", 1, N))
    /\ [][\A id \in DOMAIN streamData :
             LET s  == streamData[id]
                 s2 == streamData'[id]
             IN  /\ (~s.calibrating /\ s2.calibrating)
                        => s2.calibrationData = <<>>
                 /\ (s.calibrating /\ s2.calibrationData # s.calibrationData
                                   /\ s2.calibrationData # <<>>)
                        => s2.calibrationData
                               = Append(s.calibrationData, RawSample(s2))
                 /\ (s2.baseX # s.baseX \/ s2.baseY # s.baseY
                                        \/ s2.baseZ # s.baseZ)
                        => (s.calibrating /\ ~s2.calibrating)
         ]_vars

\* A stream that was calibrated, has moved, and has been calibrated again
\* on 60 samples at x = 1000: its baseline is 1000
C18_Witness ==
    /\ 1 \in DOMAIN streamData
    /\ ~streamData[1].calibrating
    /\ streamData[1].motion > 0
    /\ streamData[1].baseX = Fin(1000)
    /\ streamData[1].x = ToDisplay(streamData[1].baseX)
    /\ streamData[1].calibrationData[1].x = Fin(1000)

---------------------------------------------------------------------------
(* Inactivity, under Spec *)

\* C19: a step in which time passes changes no stream, and whatever time
\* has passed since its last sample, a stream that is no longer active
\* changes only by update() applied to the state it has kept: a stream in
\* the middle of a calibration keeps its buffer and calibrates on, a ready
\* stream keeps its baseline, thresholds and level and classifies on.
C19_TimeChangesNothing ==
    [][/\ now' # now => streamData' = streamData
       /\ \A id \in DOMAIN streamData :
             LET s  == streamData[id]
                 s2 == streamData'[id]
             IN  ~isActive(s, now) =>
                     \/ s2 = s
                     \/ s2 = update(s, s2.rawX, s2.rawY, s2.rawZ, now)
      ]_vars

\* Stream 1 has stopped in the middle of its first calibration, 5000 ms
\* have passed, its buffer holds what it held, and a sample for it can be
\* dispatched
C19_Witness ==
    /\ portOpened
    /\ 1 \in DOMAIN streamData
    /\ streamData[1].calibrating
    /\ Len(streamData[1].calibrationData) = ShortBurst
    /\ now - streamData[1].lastUpdate >= ACTIVE_TIMEOUT
    /\ \E msg \in Lines :
          /\ DataMatch(msg) = 1
          /\ FiniteSample(msg)
          /\ Paced(streamData, msg, now)

---------------------------------------------------------------------------
(* part_001 message by message: calibration on request and the smoothing  *)
(* keys                                                                   *)

\* startCalibration() of part_001
graphStartCalibration(s) ==
    IF s.smoothedX # Fin(0) \/ s.smoothedY # Fin(0) \/ s.smoothedZ # Fin(0)
    THEN [s EXCEPT
            !.isCalibrating = TRUE,
            !.calibrationSamples = <<>>,
            !.calibrationFrames = 0]
    ELSE s

\* isActive() of part_001, at time t
graphIsActive(s, t) == t - s.lastUpdate < ACTIVE_TIMEOUT

\* `Math.max(0.05, stream.smoothingFactor - 0.05)`, in 1/1000
IncreaseSmoothing(factor) == MathMax(Fin(50), Sub(factor, Fin(50)))

\* `Math.min(1.0, stream.smoothingFactor + 0.05)`, in 1/1000
DecreaseSmoothing(factor) == MathMin(Fin(1000), Add(factor, Fin(50)))

\* streams after keyPressed() of part_001 with the given key, at time t
graphKeyPressed(ss, key, t) ==
    LET afterC ==
            IF key \in {"c", "C"}
            THEN [id \in DOMAIN ss |->
                     IF graphIsActive(ss[id], t)
                     THEN graphStartCalibration(ss[id])
                     ELSE ss[id]]
            ELSE ss
        afterPlus ==
            IF key \in {"+", "="}
            THEN [id \in DOMAIN afterC |->
                     [afterC[id] EXCEPT
                        !.smoothingFactor = IncreaseSmoothing(@)]]
            ELSE afterC
    IN  IF key \in {"-", "_"}
        THEN [id \in DOMAIN afterPlus |->
                 [afterPlus[id] EXCEPT
                    !.smoothingFactor = DecreaseSmoothing(@)]]
        ELSE afterPlus

\* The keys pressed
GraphKeys == {"s", "c", "+", "-"}

\* A data line with a token that parses to NaN, a line part_001 hands on
NaNLine ==
    TokenLine(<<"1">>, <<"N", "a", "N">>, <<"0">>, <<"1", "0", "0", "0">>)

GraphLines ==
    {SenderHello(1), PoseLine(1, StillPose), PoseLine(1, MovedPose), NaNLine}

\* The line reaches the calibration or the smoothing of its stream
GraphCarries(msg) ==
    /\ DataMatch(msg) # 0
    /\ AxisMatch(msg, "x") # <<>>
    /\ AxisMatch(msg, "y") # <<>>
    /\ AxisMatch(msg, "z") # <<>>

\* The buffer lengths at which the device may change its reading while its
\* stream calibrates
GraphSwitchPoints == {0, GRAPH_SAMPLES \div 2}

GraphInstants == {t \in {0, 1} : t <= MaxNow}

\* The pacing of the device: while its stream calibrates it holds its
\* reading except at the switch points; otherwise it is at rest and sends
\* at most one sample per clock instant
GraphPaced(ss, msg, t) ==
    LET id == DataMatch(msg)
    IN  (GraphCarries(msg) /\ id \in DOMAIN ss) =>
            IF ss[id].isCalibrating
            THEN LET data == ss[id].calibrationSamples
                 IN  IF Len(data) \in GraphSwitchPoints THEN TRUE
                     ELSE data[Len(data)] = SampleOf(msg)
            ELSE ss[id].lastUpdate < t /\ msg # PoseLine(1, MovedPose)

\* parseSerialMessage(msg) from `let regMatch = ...` on
GraphDispatch(msg) ==
    /\ portOpened
    /\ GraphPaced(streams, msg, now)
    /\ streams' = parseSerialMessage(streams, msg, now)
    /\ UNCHANGED <<streamData, messageCount, lastLogTime, messagesPerSecond,
                   bufferBacklogDetected, consecutiveBacklogFrames,
                   portOpened, port, now, arrived, clearCalls>>

\* keyPressed() of part_001 with the given key
GraphKeyPressed(key) ==
    LET open  == IF key \in {"s", "S"} THEN TRUE ELSE portOpened
        clear == key \in {"r", "R"} /\ open
    IN  /\ portOpened' = open
        /\ streams' = graphKeyPressed(streams, key, now)
        /\ port' = IF clear THEN Drop(port, Cleared(port)) ELSE port
        /\ bufferBacklogDetected' =
               IF clear THEN FALSE ELSE bufferBacklogDetected
        /\ consecutiveBacklogFrames' =
               IF clear THEN 0 ELSE consecutiveBacklogFrames
        /\ clearCalls' = IF clear THEN clearCalls + 1 ELSE clearCalls
        /\ UNCHANGED <<streamData, messageCount, lastLogTime,
                       messagesPerSecond, now, arrived>>

NextGraph ==
    \/ \E msg \in GraphLines : GraphDispatch(msg)
    \/ \E key \in GraphKeys : GraphKeyPressed(key)
    \/ \E t \in GraphInstants : AdvanceClock(t)

SpecGraph == Init /\ [][NextGraph]_vars

\* C20: the smoothing factor of every stream of the graph sketch lies in
\* [0.05, 0.5], after any sequence of calibrations and presses of the
\* smoothing keys.
C20_SmoothingFactorRange ==
    \A id \in DOMAIN streams :
        LET factor == streams[id].smoothingFactor
        IN  /\ IsFinite(factor)
            /\ factor.v >= 50
            /\ factor.v <= 500

---------------------------------------------------------------------------
(* The classification step by step, under SpecMotion *)

\* C21: a sample whose effective distance is below motionThresholds[0], and
\* so meets no threshold, and below motionThresholds[L-1] - 0.2 x
\* motionThresholds[0], takes a ready stream at level L >= 1 to level 0 at
\* once.
C21_NoThresholdGoesToZero ==
    [][\A id \in DOMAIN streamData :
          LET s   == streamData[id]
              s2  == streamData'[id]
              eff == EffectiveOf(s, s2)
          IN  (/\ Classified(s, s2)
               /\ s.motion >= 1
               /\ RootLt(eff, ThresholdAt(s.motionThresholds, 0))
               /\ RootLt(eff, HoldBound(s)))
                  => s2.motion = 0
      ]_vars


\* The 0-based indices of the thresholds that an effective distance meets
Met(s, eff) ==
    {k \in 0..5 : RootGe(eff, ThresholdAt(s.motionThresholds, k))}

\* C22: a sample whose effective distance meets motionThresholds[k] for some
\* 0-based index k >= L takes a ready stream at level L, on that same
\* sample, to min(5, kmax + 1), kmax being the largest index met: an
\* increase is neither held back by the hysteresis nor delayed.
C22_IncreaseImmediate ==
    [][\A id \in DOMAIN streamData :
          LET s    == streamData[id]
              s2   == streamData'[id]
              met  == Met(s, EffectiveOf(s, s2))
              kmax == CHOOSE k \in met : \A m \in met : m <= k
          IN  (Classified(s, s2) /\ \E k \in met : k >= s.motion)
                  => s2.motion = IF kmax + 1 > 5 THEN 5 ELSE kmax + 1
      ]_vars

\* The first sample that the ready stream classified, at time 1, met the
\* sixth threshold and took it to level 5
C22_Witness ==
    /\ 1 \in DOMAIN streamData
    /\ ~streamData[1].calibrating
    /\ streamData[1].motion = 5
    /\ streamData[1].lastMotionTime = 1
    /\ streamData[1].lastUpdate = 1
    /\ now = 1
    /\ Met(streamData[1], streamData[1].distanceSq) = 0..5


\* C23: a sample that a ready stream classifies changes lastMotionTime if
\* and only if the level after it differs from the level before it; a
\* stream that stays at its level, level 5 included, keeps lastMotionTime.
C23_ChangeTimeIffLevelChanges ==
    [][\A id \in DOMAIN streamData :
          LET s  == streamData[id]
              s2 == streamData'[id]
          IN  Classified(s, s2) =>
                  ((s2.lastMotionTime # s.lastMotionTime)
                       <=> (s2.motion # s.motion))
      ]_vars

---------------------------------------------------------------------------
(* The backlog counter frame by frame, under SpecBurst *)

\* The lines that the frame read and dispatched
Drawn == messageCount' - messageCount

\* C24: in a frame that read exactly K = 20 lines the backlog counter is
\* incremented by one, and the purge that the frame runs if that makes it
\* T = 60 leaves it at 0; in a frame that read fewer than K lines it is
\* reset to 0, whatever count had accumulated.
C24_CounterPerFrame ==
    [][/\ Drawn = MAX_MESSAGES_PER_FRAME =>
              consecutiveBacklogFrames' =
                  IF consecutiveBacklogFrames + 1 >= AUTO_CLEAR_THRESHOLD
                  THEN 0
                  ELSE consecutiveBacklogFrames + 1
       /\ Drawn < MAX_MESSAGES_PER_FRAME => consecutiveBacklogFrames' = 0
      ]_vars

\* The 1199 lines that the purge left filled 59 frames and a frame of 19
\* lines, which reset the count of 59: the port is drained one purge after
\* a burst of 3399 lines, all but the purged 1000 of them read
C24_Witness ==
    /\ arrived = 2 * MAX_MESSAGES_PER_FRAME * AUTO_CLEAR_THRESHOLD
                     + MAX_CLEAR - 1
    /\ clearCalls = 1
    /\ port = <<>>
    /\ consecutiveBacklogFrames = 0
    /\ ~bufferBacklogDetected
    /\ messageCount % MAX_MESSAGES_PER_FRAME = MAX_MESSAGES_PER_FRAME - 1

\* C25: the frame in which the backlog counter reaches T = 60 runs a purge:
\* it removes min(pending, 1000) of the lines pending after the K lines
\* that the frame read, dispatches none of them (the streams are those
\* that the K lines read leave, and the removed lines are not counted),
\* and leaves the counter at 0; no other frame removes a line unread.
C25_PurgeAtThreshold ==
    [][LET K       == MAX_MESSAGES_PER_FRAME
           reaches == /\ Drawn = K
                      /\ consecutiveBacklogFrames + 1 >= AUTO_CLEAR_THRESHOLD
           pending == Len(port) - K
       IN  /\ reaches <=> clearCalls' = clearCalls + 1
           /\ ~reaches => (clearCalls' = clearCalls
                           /\ Len(port') = Len(port) - Drawn)
           /\ reaches =>
                 /\ Len(port') =
                        pending - (IF pending < MAX_CLEAR THEN pending
                                   ELSE MAX_CLEAR)
                 /\ port' = SubSeq(port, Len(port) - Len(port') + 1, Len(port))
                 /\ streams' = GraphParseAll(streams, port, 1, K, now)
                 /\ consecutiveBacklogFrames' = 0
      ]_vars

\* The purge has removed the 1000 lines of device 2 that followed the 1200
\* lines read, and one line is left: device 2, which sent only lines that
\* were removed or are still to be read, has no stream
C25_Witness ==
    /\ clearCalls = 1
    /\ Len(port) = 1
    /\ messageCount = MAX_MESSAGES_PER_FRAME * AUTO_CLEAR_THRESHOLD
    /\ arrived = messageCount + MAX_CLEAR + 1
    /\ consecutiveBacklogFrames = 0
    /\ DOMAIN streams = {1}

---------------------------------------------------------------------------
(* The samples of the graph sketch, under SpecGraph *)

\* The step from s to s2 is a sample that the stream accepted: the buffer
\* of a calibrating stream grew by it, or the smoothed value of a ready
\* stream moved with it
GraphAccepted(s, s2) ==
    IF s.isCalibrating
    THEN Len(s2.calibrationSamples) = Len(s.calibrationSamples) + 1
    ELSE <<s2.smoothedX, s2.smoothedY, s2.smoothedZ>>
             # <<s.smoothedX, s.smoothedY, s.smoothedZ>>

\* C26: every accepted sample, whether its stream is calibrating or ready,
\* sets lastUpdate to the current time, so that the stream counts as active
\* for the 5000 ms that follow.
C26_SampleRefreshesLastUpdate ==
    [][\A id \in DOMAIN streams :
          GraphAccepted(streams[id], streams'[id])
              => streams'[id].lastUpdate = now
      ]_vars

---------------------------------------------------------------------------
(* The classification and the display, under SpecMotion *)

\* Smoothed values that a stream might show in place of its own
SmoothedAlternatives == {Fin(0), Fin(12345), Fin(-100000)}

\* s with the smoothed value a on the three axes
ShowingInstead(s, a) == [s EXCEPT !.x = a, !.y = a, !.z = a]

\* The stream s without its smoothed value
Undisplayed(s) == [f \in DOMAIN s \ {"x", "y", "z"} |-> s[f]]

\* C27: the classification does not depend on the display smoothing: a
\* ready stream and the same stream with another smoothed value, given the
\* same sample at the same time, end with the same distance, level and
\* lastMotionTime, and still differ in nothing but the smoothed value, so
\* that this holds again for every later sample.
C27_MotionIgnoresSmoothing ==
    \A id \in DOMAIN streamData :
        LET s == streamData[id]
        IN  ~s.calibrating =>
                \A p \in MotionPoses, a \in SmoothedAlternatives :
                    LET one == update(s, Fin(p[1]), Fin(p[2]), Fin(p[3]), now)
                        two == update(ShowingInstead(s, a),
                                      Fin(p[1]), Fin(p[2]), Fin(p[3]), now)
                    IN  /\ two.distanceSq = one.distanceSq
                        /\ two.motion = one.motion
                        /\ two.lastMotionTime = one.lastMotionTime
                        /\ Undisplayed(two) = Undisplayed(one)

\* A ready stream above level 0 whose smoothed value lags behind the raw
\* sample that raised it
C27_Witness ==
    /\ 1 \in DOMAIN streamData
    /\ ~streamData[1].calibrating
    /\ streamData[1].motion = 2
    /\ streamData[1].rawX = Fin(600)
    /\ streamData[1].x # ToDisplay(streamData[1].rawX)
    /\ streamData[1].x # Fin(0)

---------------------------------------------------------------------------
(* The streams side by side, under Spec *)

\* C28: the streams are isolated: whatever line arrives for one device, a
\* registration, a sample or a malformed data line, every other registered
\* stream stays registered and keeps every one of its fields.
C28_StreamsIsolated ==
    \A msg \in Lines :
        LET after == Registry(streamData, msg, now)
        IN  \A j \in DOMAIN streamData :
                j # DeviceOf(msg) =>
                    /\ j \in DOMAIN after
                    /\ after[j] = streamData[j]

\* Stream 2 holds the short burst that its device sent at the first
\* instant, and its lastUpdate, after stream 1 was calibrated and raised
\* above level 0 by a later sample
C28_Witness ==
    /\ DOMAIN streamData = {1, 2}
    /\ ~streamData[1].calibrating
    /\ streamData[1].motion > 0
    /\ streamData[1].lastUpdate > 0
    /\ streamData[2].calibrating
    /\ Len(streamData[2].calibrationData) = ShortBurst
    /\ streamData[2].lastUpdate = 0

---------------------------------------------------------------------------
(* The calibration that a ready stream rests on, under SpecCalibrate *)

\* C29: a ready stream holds exactly N = 60 samples in its calibration
\* buffer, and its baseline, noise, deadzone and motionThresholds are those
\* that finishCalibration computes from these 60 samples; a recalibration
\* requested between samples never leaves a ready stream on a partial
\* buffer.
C29_ReadyRestsOnFullBuffer ==
    \A id \in DOMAIN streamData :
        LET s     == streamData[id]
            again == finishCalibration(s)
        IN  ~s.calibrating =>
                /\ Len(s.calibrationData) = N
                /\ <<s.baseX, s.baseY, s.baseZ>>
                       = <<again.baseX, again.baseY, again.baseZ>>
                /\ s.calibrationNoise = again.calibrationNoise
                /\ s.deadzone = again.deadzone
                /\ s.motionThresholds = again.motionThresholds
                /\ Len(s.motionThresholds) = 6

\* A ready stream that was calibrated again: the distance it keeps is that
\* of a sample it classified against an earlier baseline, the samples since
\* then went into the buffer its present baseline is computed from
C29_Witness ==
    /\ 1 \in DOMAIN streamData
    /\ ~streamData[1].calibrating
    /\ Len(streamData[1].calibrationData) = N
    /\ streamData[1].distanceSq # Fin(0)
    /\ streamData[1].x = ToDisplay(streamData[1].baseX)
    /\ DistanceSq(streamData[1], streamData[1].rawX, streamData[1].rawY,
                  streamData[1].rawZ) = Fin(0)

---------------------------------------------------------------------------
(* part_001 frame by frame after one burst, with the buffer cleared by    *)
(* hand now and then                                                      *)

\* The counts of backlogged frames at which the user presses 'r': after
\* the first backlogged frame, and one frame before the automatic clear
ClearPoints == {1, AUTO_CLEAR_THRESHOLD - 1}

\* keyPressed() with key 'r': clearSerialBuffer()
ManualClear ==
    /\ consecutiveBacklogFrames \in ClearPoints
    /\ GraphKeyPressed("r")

NextTick ==
    \/ GraphDraw
    \/ ManualClear

SpecTick == InitBurst /\ [][NextTick]_vars

\* C30: after every frame and after every clearing of the buffer by hand,
\* the backlog flag is set if and only if the count of consecutive
\* backlogged frames is above 0, and the count is at least 0 and below
\* T = 60.
C30_FlagIffCounting ==
    /\ bufferBacklogDetected <=> consecutiveBacklogFrames > 0
    /\ consecutiveBacklogFrames >= 0
    /\ consecutiveBacklogFrames < AUTO_CLEAR_THRESHOLD

\* The buffer was cleared by hand after 59 backlogged frames, one frame
\* before the automatic clear: flag and count are reset with lines still
\* pending
C30_Witness ==
    /\ clearCalls = 1
    /\ messageCount = MAX_MESSAGES_PER_FRAME * (AUTO_CLEAR_THRESHOLD - 1)
    /\ ~bufferBacklogDetected
    /\ consecutiveBacklogFrames = 0
    /\ port # <<>>

=============================================================================
